---- MODULE Spec2Model ----
(***************************************************************************)
(* MyPyTutor: the probe runner StudentTestCase.run_in_student_context      *)
(* (tutorlib/testing/cases.py), the 'square' structural Analyser           *)
(* (problem_db/fun_square.tut/analysis.py) and the submission part of the  *)
(* web client WebAPI (tutorlib/interface/web_api.py).                      *)
(*                                                                         *)
(* Python objects are modelled by reference: a dictionary is an entry of   *)
(* `dicts`, a mutable value (a list) is an entry of `heap`, a stream is an *)
(* entry of `streams`, and names are bound to tagged values.  Text is a    *)
(* sequence of tokens (one token per write or per character).              *)
(***************************************************************************)
EXTENDS Integers, Sequences, FiniteSets, TLC

\* ------------------------------------------------------------------ bounds
MaxCalls == 3      \* run_in_student_context calls in one behaviour
MaxOuter == 1      \* writes made to the process stdout outside any call

\* --------------------------------------------------------------- constants
STUDENT_LOCALS_NAME == "student_lcls"
TEST_RESULT_IDENTIFIER == "__test_result"

\* ------------------------------------------------------------------ values
IntV(k) == [tag |-> "int", n |-> k]
RefV(k) == [tag |-> "ref", n |-> k]
ProbeFn(k) == [tag |-> "probefn", n |-> k]
LearnerFn(k) == [tag |-> "learnerfn", n |-> k]
BuiltinV == [tag |-> "builtin", n |-> 0]
NoneV == [tag |-> "none", n |-> 0]

NoExc == "none"
NoAttr == <<"<no attribute>">>

\* a dictionary with name n bound to v, and with n unbound
Bind(d, n, v) == [x \in (DOMAIN d) \cup {n} |-> IF x = n THEN v ELSE d[x]]
Unbind(d, n) == [x \in (DOMAIN d) \ {n} |-> d[x]]
EmptyDict == [x \in {} |-> NoneV]

VARIABLES
    dicts,      \* the two dictionaries: shared (student_lcls) and private
    heap,       \* contents of the learner's mutable objects (list lengths)
    sys,        \* which stream is installed as sys.stdin/stdout/stderr
    streams,    \* the text held by every stream
    self,       \* the test case's standard_output/error_output/input_prompts
    pc,         \* position inside run_in_student_context, "idle" outside it
    frame,      \* the locals of the call in progress
    outcome,    \* how the last call ended: a returned value or an exception
    calls,      \* number of calls started
    origin,     \* where the last call's exception arose: harness or body
    loaded,     \* the shared dictionary and heap right after loading
    outer,      \* number of writes made outside any call
    functions,  \* the visitor's fact table: function name -> facts
    errors,     \* the Analyser's diagnostics, in the order they were added
    analysed,   \* whether the Analyser has run on the fact table
    logged_in,  \* session_manager.is_logged_in()
    notified,   \* the values the listener has been called with, in order
    wcall,      \* the last WebAPI call: its name and what the server did
    wres        \* how the last WebAPI call ended: exception and return value

anvars == <<functions, errors, analysed>>

webvars == <<logged_in, notified, wcall, wres>>

prvars == <<dicts, heap, sys, streams, self, pc, frame, outcome, calls, origin,
            loaded, outer>>

vars == <<prvars, anvars, webvars>>

\* ------------------------------------------------------ probes and inputs
\* One statement of a probe body.
Op(o, a, v) == [op |-> o, a |-> a, v |-> v]

\* The instructor's probes: the name f.__name__, what compiling and executing
\* the probe's source does ("ok": defines the function under its name;
\* "syntax_error": the source does not compile; "other_name": the source
\* defines another name, `helper`), and the statements of the body.
Probes == <<
    [name |-> "probe_read", src |-> "ok",
     body |-> <<Op("print", "a", NoneV), Op("return_len", "data", NoneV)>>],
    [name |-> "probe_append", src |-> "ok",
     body |-> <<Op("append", "data", NoneV), Op("eprint", "e", NoneV),
                Op("return_const", "", IntV(1))>>],
    [name |-> "probe_rebind", src |-> "ok",
     body |-> <<Op("rebind", "data", IntV(9)), Op("rebind", "tmp", IntV(1)),
                Op("del", "data", NoneV), Op("return_const", "", IntV(2))>>],
    [name |-> "probe_raise", src |-> "ok",
     body |-> <<Op("print", "b", NoneV), Op("input", "?", NoneV),
                Op("raise", "ValueError", NoneV)>>],
    [name |-> "probe_ask", src |-> "ok",
     body |-> <<Op("input", "?", NoneV), Op("return_input", "", NoneV)>>],
    [name |-> "probe_missing", src |-> "ok",
     body |-> <<Op("print", "c", NoneV), Op("return_len", "square", NoneV)>>],
    [name |-> "probe_syntax", src |-> "syntax_error", body |-> <<>>],
    [name |-> "probe_other", src |-> "other_name",
     body |-> <<Op("return_const", "", IntV(3))>>] >>

ProbeIds == 1..Len(Probes)

\* the name the probe's source binds when it is executed
DefName(p) == IF p.src = "other_name" THEN "helper" ELSE p.name

\* input_text: the lines offered on stdin
InputTexts == {<<>>, <<"l1">>}
LineNo(tok) == IF tok = "l1" THEN 1 ELSE 2

\* The learner's submissions, as loaded: the bindings and the mutable objects.
Submissions == {
    [env |-> [x \in {"data", "n"} |->
                 IF x = "data" THEN RefV(1) ELSE IntV(5)],
     heap |-> [r \in {1} |-> 0]],
    [env |-> [x \in {"data", "probe_other", "__test_result"} |->
                 CASE x = "data" -> RefV(1)
                   [] x = "probe_other" -> LearnerFn(1)
                   [] OTHER -> IntV(7)],
     heap |-> [r \in {1} |-> 1]],
    [env |-> [x \in {"data", "probe_other", "probe_read", "__test_result"} |->
                 CASE x = "data" -> RefV(1)
                   [] x = "probe_other" -> IntV(3)
                   [] x = "__test_result" -> IntV(7)
                   [] OTHER -> LearnerFn(2)],
     heap |-> [r \in {1} |-> 0]] }

\* ---------------------------------------------------------------- streams
StdStreams == [stdin |-> "stdin0", stdout |-> "stdout0", stderr |-> "stderr0"]
StreamIds == {"stdin0", "stdout0", "stderr0", "input_stream", "output_stream",
              "error_stream", "input_prompts_stream"}
InputFn == [tag |-> "inputfn", n |-> 0]

\* stream.write(tok)
Write(ss, id, tok) == [ss EXCEPT ![id] = Append(@, tok)]

\* redirect_stdin/redirect_stdout/redirect_stderr: entering installs the given
\* stream as the process-wide one
redirect(sy, chan, stream) == [sy EXCEPT ![chan] = stream]

\* ... and leaving puts back the stream that was installed before
restore(sy, chan, saved) == [sy EXCEPT ![chan] = saved[chan]]

\* redirect_input_prompt(lcls, stream): binds an `input` in the dictionary
\* that writes its prompt to the given stream
redirect_input_prompt(d) == Bind(d, "input", InputFn)

\* ------------------------------------------------------------ probe bodies
\* The state of a running body: its globals (the dictionary it was executed
\* in), the heap, the streams, the exception raised (if any), the value
\* returned, whether it has returned, and the last line read by input().
BodyState(env, hp, ss) ==
    [env |-> env, heap |-> hp, streams |-> ss, exc |-> NoExc, ret |-> NoneV,
     done |-> FALSE, lastin |-> NoneV]

Raise(st, e) == [st EXCEPT !.exc = e]

\* input(prompt) as installed by redirect_input_prompt: the prompt goes to the
\* prompt stream, the answer is the next line of sys.stdin (EOFError if none)
CallInput(st, sy, prompt) ==
    LET ss == IF "input" \in DOMAIN st.env /\ st.env["input"] = InputFn
                THEN Write(st.streams, "input_prompts_stream", prompt)
                ELSE Write(st.streams, sy.stdout, prompt)
    IN  IF ss[sy.stdin] = <<>>
          THEN [st EXCEPT !.streams = ss, !.exc = "EOFError"]
          ELSE [st EXCEPT !.streams = [ss EXCEPT ![sy.stdin] = Tail(@)],
                          !.lastin = [tag |-> "str", n |-> LineNo(Head(ss[sy.stdin]))]]

\* one statement of a probe body, executed with sys = sy
ExecOp(o, st, sy) ==
    CASE o.op = "print" -> [st EXCEPT !.streams = Write(@, sy.stdout, o.a)]
      [] o.op = "eprint" -> [st EXCEPT !.streams = Write(@, sy.stderr, o.a)]
      [] o.op = "input" -> CallInput(st, sy, o.a)
      [] o.op = "rebind" -> [st EXCEPT !.env = Bind(@, o.a, o.v)]
      [] o.op = "del" ->
            IF o.a \in DOMAIN st.env THEN [st EXCEPT !.env = Unbind(@, o.a)]
            ELSE Raise(st, "NameError")
      [] o.op = "append" ->
            IF o.a \notin DOMAIN st.env THEN Raise(st, "NameError")
            ELSE IF st.env[o.a].tag # "ref" THEN Raise(st, "AttributeError")
            ELSE [st EXCEPT !.heap[st.env[o.a].n] = @ + 1]
      [] o.op = "raise" -> Raise(st, o.a)
      [] o.op = "return_len" ->
            IF o.a \notin DOMAIN st.env THEN Raise(st, "NameError")
            ELSE IF st.env[o.a].tag # "ref" THEN Raise(st, "TypeError")
            ELSE [st EXCEPT !.ret = IntV(st.heap[st.env[o.a].n]), !.done = TRUE]
      [] o.op = "return_const" -> [st EXCEPT !.ret = o.v, !.done = TRUE]
      [] OTHER -> [st EXCEPT !.ret = st.lastin, !.done = TRUE]

RECURSIVE RunBody(_, _, _, _)
RunBody(body, i, st, sy) ==
    IF i > Len(body) \/ st.exc # NoExc \/ st.done THEN st
    ELSE RunBody(body, i + 1, ExecOp(body[i], st, sy), sy)

\* --------------------------------------------------- run_in_student_context
\* The interpreter state the call works on, as one record.
Mach == [dicts |-> dicts, heap |-> heap, sys |-> sys, streams |-> streams,
         self |-> self, pc |-> pc, frame |-> frame, outcome |-> outcome,
         origin |-> origin]

Install(m) ==
    /\ dicts' = m.dicts /\ heap' = m.heap /\ sys' = m.sys
    /\ streams' = m.streams /\ self' = m.self /\ pc' = m.pc
    /\ frame' = m.frame /\ outcome' = m.outcome /\ origin' = m.origin

\* invoked: the object the test statement called; produced: what that
\* invocation returned
NoFrame == [f |-> 0, input_text |-> <<>>, lcls |-> "private", exc |-> NoExc,
            origin |-> "none", result |-> NoneV, saved |-> StdStreams,
            invoked |-> NoneV, produced |-> NoneV]

NoOutcome == [kind |-> "none", value |-> NoneV, exc |-> NoExc, f |-> 0,
              input_text |-> <<>>]
Returned(m) == [kind |-> "return", value |-> m.frame.result, exc |-> NoExc,
                f |-> m.frame.f, input_text |-> m.frame.input_text]
Raised(m, e) == [kind |-> "raise", value |-> NoneV, exc |-> e,
                 f |-> m.frame.f, input_text |-> m.frame.input_text]

\* StudentTestCase.__init__
FreshSelf == [standard_output |-> <<>>, error_output |-> <<>>,
              input_prompts |-> NoAttr]

\* (mutation) no copy is taken: the call works on the shared dictionary itself
copy_alias(ds, id) == [id |-> id, dicts |-> ds]

\* copy.copy(d): a new dictionary with the same bindings (the values are
\* shared, not copied)
copy_copy(ds, id) == [id |-> "private", dicts |-> [ds EXCEPT !.private = ds[id]]]

\* the call is over: its locals and its private dictionary are dropped
leave(m, oc, org) ==
    [m EXCEPT !.pc = "idle", !.frame = NoFrame, !.dicts.private = EmptyDict,
              !.outcome = oc, !.origin = org]

\* lines 76-93: the four streams are created and the bindings copied
call_begin(m, p, txt) ==
    LET c == copy_copy(m.dicts, "shared")
    IN  [m EXCEPT !.streams = [@ EXCEPT !.input_stream = txt,
                                        !.output_stream = <<>>,
                                        !.error_stream = <<>>,
                                        !.input_prompts_stream = <<>>],
                  !.dicts = c.dicts,
                  !.frame = [NoFrame EXCEPT !.f = p, !.input_text = txt,
                                            !.lcls = c.id],
                  !.outcome = NoOutcome, !.origin = "none",
                  !.pc = "copied"]

\* (mutation) the probe's definition does not replace a binding the copy
\* already has for its name
inject_keep_learner(m) ==
    LET p == Probes[m.frame.f]
        l == m.frame.lcls
        d == Bind(m.dicts[l], "__builtins__", BuiltinV)
    IN  IF p.src = "syntax_error"
          THEN leave(m, Raised(m, "SyntaxError"), "harness")
          ELSE [m EXCEPT !.dicts[l] = IF DefName(p) \in DOMAIN d THEN d
                                      ELSE Bind(d, DefName(p),
                                                ProbeFn(m.frame.f)),
                         !.pc = "injected"]

\* lines 95-96: the probe's source is compiled and executed in lcls
inject(m) ==
    LET p == Probes[m.frame.f]
        l == m.frame.lcls
    IN  IF p.src = "syntax_error"
          THEN leave(m, Raised(m, "SyntaxError"), "harness")
          ELSE [m EXCEPT !.dicts[l] = Bind(Bind(@, "__builtins__", BuiltinV),
                                           DefName(p), ProbeFn(m.frame.f)),
                         !.pc = "injected"]

\* lines 108-110: the with statement enters its four context managers
with_enter(m) ==
    [m EXCEPT !.frame.saved = m.sys,
              !.sys = redirect(redirect(redirect(@, "stdin", "input_stream"),
                                        "stdout", "output_stream"),
                               "stderr", "error_stream"),
              !.dicts[m.frame.lcls] = redirect_input_prompt(@),
              !.pc = "redirected"]

\* lines 111-112: '__test_result = <name>()' is executed in lcls and the
\* result read back
exec_test(m) ==
    LET l == m.frame.lcls
        d == m.dicts[l]
        name == Probes[m.frame.f].name
        fail(e, org) == [m EXCEPT !.frame.exc = e, !.frame.origin = org,
                                  !.pc = "executed"]
    IN  IF name \notin DOMAIN d THEN fail("NameError", "harness")
        ELSE IF d[name].tag = "probefn" THEN
            LET st == RunBody(Probes[d[name].n].body, 1,
                              BodyState(d, m.heap, m.streams), m.sys)
                d2 == Bind(st.env, TEST_RESULT_IDENTIFIER, st.ret)
            IN  IF st.exc # NoExc
                  THEN [m EXCEPT !.dicts[l] = st.env, !.heap = st.heap,
                                 !.streams = st.streams,
                                 !.frame.exc = st.exc, !.frame.origin = "body",
                                 !.frame.invoked = d[name],
                                 !.pc = "executed"]
                  ELSE [m EXCEPT !.dicts[l] = d2, !.heap = st.heap,
                                 !.streams = st.streams,
                                 !.frame.result = d2[TEST_RESULT_IDENTIFIER],
                                 !.frame.invoked = d[name],
                                 !.frame.produced = st.ret,
                                 !.pc = "executed"]
        ELSE IF d[name].tag = "learnerfn" THEN
            [m EXCEPT !.dicts[l] = Bind(@, TEST_RESULT_IDENTIFIER,
                                        IntV(100 + d[name].n)),
                      !.frame.result = IntV(100 + d[name].n),
                      !.frame.invoked = d[name],
                      !.frame.produced = IntV(100 + d[name].n),
                      !.pc = "executed"]
        ELSE fail("TypeError", "harness")

\* (mutation) the streams are put back only when the block did not raise
with_exit_leaky(m) ==
    LET sv == m.frame.saved
        m2 == [m EXCEPT !.sys = restore(restore(restore(@, "stderr", sv),
                                                "stdout", sv), "stdin", sv)]
    IN  IF m.frame.exc # NoExc
          THEN leave(m, Raised(m, m.frame.exc), m.frame.origin)
          ELSE [m2 EXCEPT !.pc = "unwound"]

\* lines 108-112: the with statement leaves its context managers, on the
\* normal path and when the block raised; a pending exception then
\* propagates out of the call
with_exit(m) ==
    LET sv == m.frame.saved
        m2 == [m EXCEPT !.sys = restore(restore(restore(@, "stderr", sv),
                                                "stdout", sv), "stdin", sv)]
    IN  IF m.frame.exc # NoExc
          THEN leave(m2, Raised(m, m.frame.exc), m.frame.origin)
          ELSE [m2 EXCEPT !.pc = "unwound"]

\* lines 114-118: the captured text is stored on the test case and the
\* result returned
finish(m) ==
    leave([m EXCEPT !.self = [standard_output |-> m.streams.output_stream,
                              error_output |-> m.streams.error_stream,
                              input_prompts |-> m.streams.input_prompts_stream]],
          Returned(m), "none")

\* the rest of a call in progress, to its end
RECURSIVE run_rest(_)
run_rest(m) ==
    CASE m.pc = "copied" -> run_rest(inject(m))
      [] m.pc = "injected" -> run_rest(with_enter(m))
      [] m.pc = "redirected" -> run_rest(exec_test(m))
      [] m.pc = "executed" -> run_rest(with_exit(m))
      [] m.pc = "unwound" -> run_rest(finish(m))
      [] OTHER -> m

\* the whole call, from interpreter state m
run_in_student_context(m, p, txt) == run_rest(call_begin(m, p, txt))

\* ----------------------------------------------------------------- actions
ModuleGlobals == {STUDENT_LOCALS_NAME}

ProbeInit ==
    /\ \E s \in Submissions :
          /\ dicts = [shared |-> s.env, private |-> EmptyDict]
          /\ heap = s.heap
          /\ loaded = s
    /\ sys = StdStreams
    /\ streams = [id \in StreamIds |-> <<>>]
    /\ self = FreshSelf
    /\ pc = "idle"
    /\ frame = NoFrame
    /\ outcome = NoOutcome
    /\ origin = "none"
    /\ calls = 0
    /\ outer = 0

Call(p, txt) ==
    /\ pc = "idle"
    /\ calls < MaxCalls
    /\ STUDENT_LOCALS_NAME \in ModuleGlobals
    /\ Install(call_begin(Mach, p, txt))
    /\ calls' = calls + 1
    /\ UNCHANGED <<loaded, outer, anvars, webvars>>

Inject ==
    /\ pc = "copied"
    /\ Install(inject(Mach))
    /\ UNCHANGED <<calls, loaded, outer, anvars, webvars>>

EnterWith ==
    /\ pc = "injected"
    /\ Install(with_enter(Mach))
    /\ UNCHANGED <<calls, loaded, outer, anvars, webvars>>

ExecTest ==
    /\ pc = "redirected"
    /\ Install(exec_test(Mach))
    /\ UNCHANGED <<calls, loaded, outer, anvars, webvars>>

ExitWith ==
    /\ pc = "executed"
    /\ Install(with_exit(Mach))
    /\ UNCHANGED <<calls, loaded, outer, anvars, webvars>>

Finish ==
    /\ pc = "unwound"
    /\ Install(finish(Mach))
    /\ UNCHANGED <<calls, loaded, outer, anvars, webvars>>

\* the surrounding test run writes to the process's stdout between calls
OuterPrint ==
    /\ pc = "idle"
    /\ outer < MaxOuter
    /\ streams' = Write(streams, sys.stdout, "o")
    /\ outer' = outer + 1
    /\ UNCHANGED <<dicts, heap, sys, self, pc, frame, outcome, calls, origin, loaded>>
    /\ UNCHANGED <<anvars, webvars>>

\* unittest builds a new test case object for the next test method; the
\* outcome of the last call belonged to the old one
NewTestCase ==
    /\ pc = "idle"
    /\ self' = FreshSelf
    /\ outcome' = NoOutcome
    /\ origin' = "none"
    /\ UNCHANGED <<dicts, heap, sys, streams, pc, frame, calls, loaded, outer>>
    /\ UNCHANGED <<anvars, webvars>>

\* ------------------------------------------------- the 'square' Analyser
MaxArgs == 3       \* parameters a function of the submission may take

MsgDefine == "You need to define the square function"
MsgArgs == "square should accept exactly one argument"
MsgReturn == "You need a return statement"

\* the facts the visitor records for one function
FunctionFacts ==
    [is_defined : BOOLEAN,
     args : {[i \in 1..k |-> "a"] : k \in 0..MaxArgs},
     returns : BOOLEAN]

FunctionNames == {"square", "cube"}

\* CodeAnalyser.add_error: the diagnostic is added after those already there
add_error(errs, msg) == Append(errs, msg)

\* (mutation) the argument-count rule is not chained to the definition rule
analyse_unchained(fns) ==
    LET sq == fns["square"]
        e1 == IF ~sq.is_defined THEN add_error(<<>>, MsgDefine) ELSE <<>>
        e2 == IF Len(sq.args) # 1 THEN add_error(e1, MsgArgs) ELSE e1
    IN  IF ~sq.returns THEN add_error(e2, MsgReturn) ELSE e2

\* (mutation) the return-statement rule is evaluated first
analyse_return_first(fns) ==
    LET sq == fns["square"]
        e1 == IF ~sq.returns THEN add_error(<<>>, MsgReturn) ELSE <<>>
    IN  IF ~sq.is_defined THEN add_error(e1, MsgDefine)
        ELSE IF Len(sq.args) # 1 THEN add_error(e1, MsgArgs)
        ELSE e1

\* Analyser._analyse, starting with no diagnostics
analyse(fns) ==
    LET sq == fns["square"]
        e1 == IF ~sq.is_defined THEN add_error(<<>>, MsgDefine)
              ELSE IF Len(sq.args) # 1 THEN add_error(<<>>, MsgArgs)
              ELSE <<>>
    IN  IF ~sq.returns THEN add_error(e1, MsgReturn) ELSE e1

AnalyserInit ==
    /\ functions \in [FunctionNames -> FunctionFacts]
    /\ errors = <<>>
    /\ analysed = FALSE

Analyse ==
    /\ ~analysed
    /\ errors' = analyse(functions)
    /\ analysed' = TRUE
    /\ UNCHANGED <<functions, prvars, webvars>>

\* ------------------------------------------------------------------ WebAPI
MaxEntries == 2    \* elements of a get_submissions response
MaxNotes == 2      \* listener notifications in one behaviour

OK == "OK"
LATE == "LATE"
LATE_OK == "LATE_OK"
MISSING == "MISSING"
RESPONSES == {OK, LATE, LATE_OK, MISSING}

\* Python values of the web client: None, a bool, a text (a sequence of
\* tokens) and a dictionary from tutorials to statuses
EmptyMap == [x \in {} |-> ""]
PyNone == [t |-> "none", b |-> FALSE, s |-> <<>>, d |-> EmptyMap]
PyBool(b) == [t |-> "bool", b |-> b, s |-> <<>>, d |-> EmptyMap]
PyStr(s) == [t |-> "str", b |-> FALSE, s |-> s, d |-> EmptyMap]
PyDict(d) == [t |-> "dict", b |-> FALSE, s |-> <<>>, d |-> d]

\* the result of a method: the session state it leaves, the exception it
\* raised (NoExc if it returned), the exception's message, the value it
\* returned, and the calls it made, in order ("login": WebAPI.login,
\* "sm.login"/"sm.logout": the session manager, "listener", "f": the request
\* function)
Res(li, nt, e, v) == [logged_in |-> li, notified |-> nt, exc |-> e, ret |-> v,
                      message |-> "", trace |-> <<>>]

\* the method made these calls
Traced(r, made) == [r EXCEPT !.trace = @ \o made]

\* raise WebAPIError(message=msg, ...)
WebAPIError(r, msg) ==
    [r EXCEPT !.exc = "WebAPIError", !.message = msg, !.ret = PyNone]

\* what the session manager does on login: "ok" (logs in, returns True),
\* "fail" (returns False) or "raise"; on logout: "ok" or "raise"
LoginBehaviours == {"ok", "fail", "raise"}
LogoutBehaviours == {"ok", "raise"}

\* session_manager.is_logged_in() after session_manager.login and after
\* session_manager.logout: a call that fails leaves the session as it was
session_login(li, sm) == IF sm = "ok" THEN TRUE ELSE li
session_logout(li, sm) == IF sm = "ok" THEN FALSE ELSE li

\* (mutation) no early return for a user who is already logged in
login_always(li, nt, sm) ==
    IF sm = "raise"
      THEN Traced(WebAPIError(Res(session_login(li, sm), nt, NoExc, PyNone),
                              "Login Failed"), <<"login", "sm.login">>)
      ELSE Traced(Res(session_login(li, sm), Append(nt, sm = "ok"), NoExc,
                      PyBool(sm = "ok")), <<"login", "sm.login", "listener">>)

\* (mutation) the listener is told True after every login attempt
login_notifies_true(li, nt, sm) ==
    IF li THEN Traced(Res(li, nt, NoExc, PyBool(TRUE)), <<"login">>)
    ELSE IF sm = "raise"
      THEN Traced(WebAPIError(Res(session_login(li, sm), nt, NoExc, PyNone),
                              "Login Failed"), <<"login", "sm.login">>)
      ELSE Traced(Res(session_login(li, sm), Append(nt, TRUE), NoExc,
                      PyBool(sm = "ok")), <<"login", "sm.login", "listener">>)

\* WebAPI.login
login(li, nt, sm) ==
    IF li THEN Traced(Res(li, nt, NoExc, PyBool(TRUE)), <<"login">>)
    ELSE IF sm = "raise"
      THEN Traced(WebAPIError(Res(session_login(li, sm), nt, NoExc, PyNone),
                              "Login Failed"), <<"login", "sm.login">>)
      ELSE Traced(Res(session_login(li, sm), Append(nt, sm = "ok"), NoExc,
                      PyBool(sm = "ok")), <<"login", "sm.login", "listener">>)

\* WebAPI.logout
logout(li, nt, sm) ==
    IF ~li THEN Res(li, nt, NoExc, PyNone)
    ELSE IF sm = "raise"
      THEN Traced(WebAPIError(Res(session_logout(li, sm), nt, NoExc, PyNone),
                              "Logout Failed"), <<"sm.logout">>)
      ELSE Traced(Res(session_logout(li, sm), Append(nt, FALSE), NoExc, PyNone),
                  <<"sm.logout", "listener">>)

\* What the request function f does when called: returns a text, or raises
\* AuthError, RequestError or NullResponse.
Reply(k, txt) == [kind |-> k, text |-> txt]

\* the try statement of _request: f is called and its exceptions converted
call_f(l, f) ==
    LET c == Traced(l, <<"f">>)
    IN  IF f.kind = "AuthError" THEN WebAPIError(c, "Authentication Failure")
        ELSE IF f.kind = "RequestError" THEN WebAPIError(c, "Could Not Complete Request")
        ELSE IF f.kind = "NullResponse" THEN [c EXCEPT !.ret = PyNone]
        ELSE [c EXCEPT !.ret = PyStr(f.text)]

\* (mutation) the result of login is not looked at
request_unchecked(li, nt, require_login, sm, f) ==
    LET l == IF require_login THEN login(li, nt, sm)
             ELSE Res(li, nt, NoExc, PyBool(TRUE))
    IN  IF l.exc # NoExc THEN l ELSE call_f(l, f)

\* WebAPI._request (through _get and _post)
request(li, nt, require_login, sm, f) ==
    LET l == IF require_login THEN login(li, nt, sm)
             ELSE Res(li, nt, NoExc, PyBool(TRUE))
    IN  IF l.exc # NoExc THEN l
        ELSE IF ~l.ret.b THEN WebAPIError(l, "Authentication Error")
        ELSE call_f(l, f)

\* str.strip(): leading and trailing whitespace removed
IsSpace(tok) == tok \in {" ", "\n"}
RECURSIVE lstrip(_)
lstrip(txt) == IF txt # <<>> /\ IsSpace(Head(txt)) THEN lstrip(Tail(txt)) ELSE txt
RECURSIVE rstrip(_)
rstrip(txt) ==
    IF txt # <<>> /\ IsSpace(txt[Len(txt)])
      THEN rstrip(SubSeq(txt, 1, Len(txt) - 1)) ELSE txt
strip(txt) == rstrip(lstrip(txt))

\* WebAPI.submit_answer
submit_answer(li, nt, sm, f) ==
    LET r == request(li, nt, TRUE, sm, f)
    IN  IF r.exc # NoExc \/ r.ret = PyNone THEN r
        ELSE LET response == strip(r.ret.s)
             IN  IF response \notin {<<OK>>, <<LATE>>, <<LATE_OK>>}
                   THEN WebAPIError(r, "Invalid Response")
                   ELSE [r EXCEPT !.ret = PyStr(response)]

\* A JSON text is a sequence of tokens: "[", "]", "," and string literals.
IsStrTok(tok) == tok \notin {"[", "]", ","}

\* json.dumps of a list of lists of strings
RECURSIVE Join(_)
Join(toks) ==
    IF toks = <<>> THEN <<>>
    ELSE IF Len(toks) = 1 THEN toks
    ELSE <<Head(toks), ",">> \o Join(Tail(toks))
RECURSIVE JoinElems(_)
JoinElems(es) ==
    IF es = <<>> THEN <<>>
    ELSE <<"[">> \o Join(Head(es)) \o <<"]">>
         \o (IF Len(es) = 1 THEN <<>> ELSE <<",">> \o JoinElems(Tail(es)))
Render(es) == <<"[">> \o JoinElems(es) \o <<"]">>

JsonInvalid == [kind |-> "invalid", value |-> <<>>]

\* json.loads of a text: a list of lists of strings, a string, or invalid
\* (ValueError).  mode is what the parser expects at token i.
RECURSIVE Scan(_, _, _, _, _)
Scan(t, i, mode, cur, acc) ==
    IF i > Len(t)
      THEN IF mode = "done" THEN [kind |-> "list", value |-> acc] ELSE JsonInvalid
    ELSE LET tok == t[i] IN
      CASE mode = "elem_or_end" ->
              IF tok = "[" THEN Scan(t, i + 1, "str_or_end", <<>>, acc)
              ELSE IF tok = "]" THEN Scan(t, i + 1, "done", cur, acc)
              ELSE JsonInvalid
        [] mode = "elem" ->
              IF tok = "[" THEN Scan(t, i + 1, "str_or_end", <<>>, acc)
              ELSE JsonInvalid
        [] mode = "str_or_end" ->
              IF IsStrTok(tok) THEN Scan(t, i + 1, "after_str", Append(cur, tok), acc)
              ELSE IF tok = "]" THEN Scan(t, i + 1, "after_elem", <<>>, Append(acc, cur))
              ELSE JsonInvalid
        [] mode = "str" ->
              IF IsStrTok(tok) THEN Scan(t, i + 1, "after_str", Append(cur, tok), acc)
              ELSE JsonInvalid
        [] mode = "after_str" ->
              IF tok = "," THEN Scan(t, i + 1, "str", cur, acc)
              ELSE IF tok = "]" THEN Scan(t, i + 1, "after_elem", <<>>, Append(acc, cur))
              ELSE JsonInvalid
        [] mode = "after_elem" ->
              IF tok = "," THEN Scan(t, i + 1, "elem", cur, acc)
              ELSE IF tok = "]" THEN Scan(t, i + 1, "done", cur, acc)
              ELSE JsonInvalid
        [] OTHER -> JsonInvalid

json_loads(t) ==
    IF t = <<>> THEN JsonInvalid
    ELSE IF Len(t) = 1 /\ IsStrTok(t[1]) THEN [kind |-> "string", value |-> <<t>>]
    ELSE IF t[1] = "[" THEN Scan(t, 2, "elem_or_end", <<>>, <<>>)
    ELSE JsonInvalid

\* base64.b32decode of a hash as the server sends it: the hash, or -1 when
\* the text is not base32 (binascii.Error)
b32decode(tok) ==
    CASE tok = "B1" -> 1 [] tok = "B2" -> 2 [] tok = "B9" -> 9 [] OTHER -> -1

\* the tutorial package: its tutorials by hash, "" (None) when there is none
tutorial_with_hash(h) ==
    CASE h = 1 -> "t1" [] h = 2 -> "t2" [] OTHER -> ""
PackageTutorials == {"t1", "t2"}

\* the loop of _parse_submissions over the decoded elements
RECURSIVE parse_loop(_, _, _)
parse_loop(results, i, output) ==
    IF i > Len(results) THEN [exc |-> NoExc, ret |-> PyDict(output)]
    ELSE LET e == results[i] IN
      IF Len(e) # 2 THEN [exc |-> "ValueError", ret |-> PyNone]
      ELSE IF e[2] \notin RESPONSES THEN [exc |-> "WebAPIError", ret |-> PyNone]
      ELSE IF b32decode(e[1]) = -1 THEN [exc |-> "binascii.Error", ret |-> PyNone]
      ELSE LET tutorial == tutorial_with_hash(b32decode(e[1])) IN
        IF tutorial = "" THEN parse_loop(results, i + 1, output)
        ELSE parse_loop(results, i + 1,
                 [x \in (DOMAIN output) \cup {tutorial} |->
                     IF x = tutorial THEN e[2] ELSE output[x]])

\* WebAPI._parse_submissions; response is a text or None
parse_submissions(response) ==
    IF response.t # "str" THEN [exc |-> "TypeError", ret |-> PyNone]
    ELSE LET results == json_loads(response.s) IN
      IF results.kind = "invalid" THEN [exc |-> "WebAPIError", ret |-> PyNone]
      ELSE IF results.kind = "string" THEN [exc |-> "ValueError", ret |-> PyNone]
      ELSE parse_loop(results.value, 1, EmptyMap)

\* WebAPI.get_submissions
get_submissions(li, nt, sm, f) ==
    LET r == request(li, nt, TRUE, sm, f)
    IN  IF r.exc # NoExc THEN r
        ELSE LET q == parse_submissions(r.ret)
             IN  [r EXCEPT !.exc = q.exc, !.ret = q.ret]

\* ------------------------------------------------------ web inputs, actions
AnswerTexts == {<<OK>>, <<OK, "\n">>, <<" ", LATE, "\n">>, <<LATE_OK>>, <<MISSING>>,
                <<"ERROR">>, <<>>, <<OK, " ", LATE>>}

SubmissionElems == {<<h, st>> : h \in {"B1", "B2", "B9", "!!"}, st \in {OK, "BAD"}}
                   \cup {<<"B1", LATE>>, <<"B2", MISSING>>, <<"B2", LATE_OK>>,
                         <<"B1", OK, "x">>}
ElemSeqs == UNION {[1..k -> SubmissionElems] : k \in 0..MaxEntries}
\* well-formed texts, some of them cut short, and a text that is one string
SubmissionTexts == {Render(es) : es \in ElemSeqs}
                   \cup {SubSeq(Render(es), 1, Len(Render(es)) - 1) :
                            es \in {x \in ElemSeqs : Len(x) <= 1}}
                   \cup {<<OK>>}

Replies(texts) == {Reply("value", txt) : txt \in texts}
                  \cup {Reply(k, <<>>) : k \in {"AuthError", "RequestError", "NullResponse"}}
AnswerReplies == Replies(AnswerTexts)
SubmissionReplies == Replies(SubmissionTexts)

NoCall == [op |-> "none", sm |-> "ok", f |-> Reply("NullResponse", <<>>),
           require_login |-> TRUE, was_logged_in |-> FALSE, notes_before |-> 0]
NoResult == [exc |-> NoExc, ret |-> PyNone, message |-> "", trace |-> <<>>]

WebInit ==
    /\ logged_in = FALSE
    /\ notified = <<>>
    /\ wcall = NoCall
    /\ wres = NoResult

WebStepWith(op, rl, sm, f, r) ==
    /\ logged_in' = r.logged_in
    /\ notified' = r.notified
    /\ wcall' = [op |-> op, sm |-> sm, f |-> f, require_login |-> rl,
                 was_logged_in |-> logged_in, notes_before |-> Len(notified)]
    /\ wres' = [exc |-> r.exc, ret |-> r.ret, message |-> r.message,
                trace |-> r.trace]
    /\ UNCHANGED <<prvars, anvars>>

WebStep(op, sm, f, r) == WebStepWith(op, TRUE, sm, f, r)

Login(sm) ==
    /\ Len(notified) < MaxNotes
    /\ WebStep("login", sm, NoCall.f, login(logged_in, notified, sm))

Logout(sm) ==
    /\ Len(notified) < MaxNotes
    /\ WebStep("logout", sm, NoCall.f, logout(logged_in, notified, sm))

SubmitAnswer(sm, f) ==
    /\ Len(notified) < MaxNotes
    /\ WebStep("submit_answer", sm, f, submit_answer(logged_in, notified, sm, f))

GetSubmissions(sm, f) ==
    /\ Len(notified) < MaxNotes
    /\ WebStep("get_submissions", sm, f, get_submissions(logged_in, notified, sm, f))

\* a call of _request, as _get and _post make it
RequestReplies == Replies({<<OK>>, <<LATE>>, <<"data">>})

Request(rl, sm, f) ==
    /\ Len(notified) < MaxNotes
    /\ WebStepWith("request", rl, sm, f, request(logged_in, notified, rl, sm, f))

\* ---------------------------------------------------------- specifications
\* the parts a specification leaves alone
ProbeIdle ==
    /\ dicts = [shared |-> EmptyDict, private |-> EmptyDict]
    /\ heap = <<>>
    /\ loaded = [env |-> EmptyDict, heap |-> <<>>]
    /\ sys = StdStreams
    /\ streams = [id \in StreamIds |-> <<>>]
    /\ self = FreshSelf
    /\ pc = "idle"
    /\ frame = NoFrame
    /\ outcome = NoOutcome
    /\ origin = "none"
    /\ calls = 0
    /\ outer = 0

AnalyserIdle ==
    /\ functions = [n \in FunctionNames |->
                       [is_defined |-> FALSE, args |-> <<>>, returns |-> FALSE]]
    /\ errors = <<>>
    /\ analysed = FALSE

\* the probe runner
Init == ProbeInit /\ AnalyserIdle /\ WebInit

Next ==
    \/ \E p \in ProbeIds, txt \in InputTexts : Call(p, txt)
    \/ Inject
    \/ EnterWith
    \/ ExecTest
    \/ ExitWith
    \/ Finish
    \/ OuterPrint
    \/ NewTestCase

Spec == Init /\ [][Next]_vars

\* the 'square' Analyser
AnalyserSpecInit == ProbeIdle /\ AnalyserInit /\ WebInit

AnalyserNext == Analyse

AnalyserSpec == AnalyserSpecInit /\ [][AnalyserNext]_vars

\* the web client's submission calls
SubmitInit == ProbeIdle /\ AnalyserIdle /\ WebInit

SubmitNext ==
    \/ \E sm \in LoginBehaviours : Login(sm)
    \/ \E sm \in LogoutBehaviours : Logout(sm)
    \/ \E sm \in LoginBehaviours, f \in AnswerReplies : SubmitAnswer(sm, f)
    \/ \E sm \in LoginBehaviours, f \in SubmissionReplies : GetSubmissions(sm, f)

SubmitSpec == SubmitInit /\ [][SubmitNext]_vars

\* the web client's session: login, logout and requests
SessionInit == ProbeIdle /\ AnalyserIdle /\ WebInit

SessionNext ==
    \/ \E sm \in LoginBehaviours : Login(sm)
    \/ \E sm \in LogoutBehaviours : Logout(sm)
    \/ \E rl \in BOOLEAN, sm \in LoginBehaviours, f \in RequestReplies :
          Request(rl, sm, f)

SessionSpec == SessionInit /\ [][SessionNext]_vars

\* ------------------------------------------------------------------ claims
\* the interpreter as it is right after loading the submission, with a new
\* test case
FreshMach ==
    [dicts |-> [shared |-> loaded.env, private |-> EmptyDict],
     heap |-> loaded.heap, sys |-> StdStreams,
     streams |-> [id \in StreamIds |-> <<>>], self |-> FreshSelf,
     pc |-> "idle", frame |-> NoFrame, outcome |-> NoOutcome, origin |-> "none"]

HarnessNames == {Probes[i].name : i \in ProbeIds} \cup {DefName(Probes[i]) : i \in ProbeIds}
                  \cup {TEST_RESULT_IDENTIFIER, "__builtins__", "input", "tmp"}

\* C1: whatever calls have been made and however they ended, student_lcls
\* (the shared dictionary) has exactly the keys and bindings it had right
\* after the submission was loaded; a call never binds the probe's name,
\* '__test_result' or any other name in it.
C1_SharedBindingsUntouched ==
    /\ dicts.shared = loaded.env
    /\ \A n \in HarnessNames :
          n \notin DOMAIN loaded.env => n \notin DOMAIN dicts.shared

\* a second or later call has run a body that rebound, added and deleted
\* names of its dictionary, after an earlier call ended
C1_Witness ==
    /\ pc = "executed" /\ calls >= 2
    /\ Probes[frame.f].name = "probe_rebind"
    /\ "tmp" \in DOMAIN dicts.private
    /\ "data" \notin DOMAIN dicts.private
    /\ TEST_RESULT_IDENTIFIER \in DOMAIN dicts.private

\* What a probe run yields: the value or the error and, when it returned,
\* the captured text left on the test case.
ProbeResult(m) ==
    [kind |-> m.outcome.kind, value |-> m.outcome.value, exc |-> m.outcome.exc,
     out |-> IF m.outcome.kind = "return" THEN m.self.standard_output ELSE <<>>,
     err |-> IF m.outcome.kind = "return" THEN m.self.error_output ELSE <<>>,
     prompts |-> IF m.outcome.kind = "return" THEN m.self.input_prompts ELSE <<>>]

\* C2: a probe's result does not depend on the probes run before it: after
\* every call the result is the one the same probe with the same input
\* yields when it is the first to run against the loaded submission.
C2_OrderIndependent ==
    (pc = "idle" /\ outcome.kind # "none") =>
        ProbeResult(Mach) =
            ProbeResult(run_in_student_context(FreshMach, outcome.f,
                                               outcome.input_text))

\* C3: outside the probe invocation (before the with statement is entered
\* and after it is left, on the normal path and when the probe raised) the
\* process-wide stdin, stdout and stderr are the original streams; they are
\* redirected only while the invocation runs.
C3_StreamsRestored ==
    /\ pc \in {"idle", "copied", "injected", "unwound"} => sys = StdStreams
    /\ pc \in {"redirected", "executed"} =>
          sys = [stdin |-> "input_stream", stdout |-> "output_stream",
                 stderr |-> "error_stream"]

\* a call has ended because the probe's body raised after writing output
C3_Witness ==
    /\ pc = "idle" /\ outcome.kind = "raise" /\ origin = "body"
    /\ streams.output_stream # <<>>
    /\ sys = StdStreams

\* C4: when the probe's body raised, the call leaves on the test case the
\* stdout, stderr and prompt text captured during that invocation, next to
\* the error.
C4_RaiseKeepsCapture ==
    (pc = "idle" /\ outcome.kind = "raise" /\ origin = "body") =>
        /\ self.standard_output = streams.output_stream
        /\ self.error_output = streams.error_stream
        /\ self.input_prompts = streams.input_prompts_stream

\* C5: after every call, however it ended, standard_output, error_output
\* and input_prompts (once it exists) hold exactly the text written during
\* that call, never text captured by an earlier call.
C5_CaptureIsThisCalls ==
    (pc = "idle" /\ outcome.kind # "none") =>
        /\ self.standard_output = streams.output_stream
        /\ self.error_output = streams.error_stream
        /\ self.input_prompts \in {NoAttr, streams.input_prompts_stream}

\* what the caller of run_in_student_context gets to see of a call
Report(m) == [kind |-> m.outcome.kind, value |-> m.outcome.value,
              exc |-> m.outcome.exc]

\* C6: a call that failed in the harness (the probe's source did not
\* compile, or its name was not bound to a callable) ends in a way no call
\* whose probe body raised can end.
C6_HarnessErrorDistinct ==
    (pc = "idle" /\ outcome.kind = "raise" /\ origin = "harness") =>
        \A q \in ProbeIds, txt \in InputTexts :
            LET r == run_in_student_context(Mach, q, txt)
            IN  r.origin = "body" => Report(r) # Report(Mach)

\* whether the diagnostic is among those the Analyser produced
HasError(msg) == \E i \in 1..Len(errors) : errors[i] = msg

\* C7: when the 'function defined' rule fails, the chained 'exactly one
\* argument' rule adds nothing; the independent 'return statement' rule adds
\* its diagnostic exactly when the function has no return, whatever the
\* other two rules found.
C7_ChainedAndIndependentRules ==
    analysed =>
        /\ ~functions["square"].is_defined => ~HasError(MsgArgs)
        /\ HasError(MsgReturn) <=> ~functions["square"].returns

\* square is not defined, so its argument list is not of length one, and it
\* has no return: the definition and the return diagnostics, nothing else
C7_Witness ==
    /\ analysed
    /\ ~functions["square"].is_defined
    /\ Len(functions["square"].args) # 1
    /\ ~functions["square"].returns
    /\ errors = <<MsgDefine, MsgReturn>>

\* C8: the definition or argument-count diagnostic comes before the return
\* diagnostic, at most one of the first two is present, there is no
\* diagnostic exactly when square is defined with one argument and a return,
\* and square(a, b) with a return yields the argument-count diagnostic alone.
C8_DiagnosticsOrderAndContent ==
    analysed =>
        LET sq == functions["square"] IN
        /\ \A i, j \in 1..Len(errors) :
              (errors[i] = MsgReturn /\ errors[j] \in {MsgDefine, MsgArgs}) => j < i
        /\ ~(HasError(MsgDefine) /\ HasError(MsgArgs))
        /\ errors = <<>> <=> (sq.is_defined /\ Len(sq.args) = 1 /\ sq.returns)
        /\ (sq.is_defined /\ Len(sq.args) = 2 /\ sq.returns) => errors = <<MsgArgs>>

\* square(a, b) without a return: two diagnostics, in rule order
C8_Witness ==
    /\ analysed
    /\ functions["square"].is_defined
    /\ Len(functions["square"].args) = 2
    /\ ~functions["square"].returns
    /\ errors = <<MsgArgs, MsgReturn>>

\* the request function was called: the user was or became logged in
ServerReached == wcall.was_logged_in \/ wcall.sm = "ok"

\* C9: submit_answer returns True for the response 'OK', False for 'LATE',
\* None when the answer had already been submitted (no response), and raises
\* WebAPIError for every other response.
C9_SubmitAnswerResult ==
    (wcall.op = "submit_answer" /\ ServerReached) =>
        /\ wcall.f.kind = "NullResponse" => (wres.exc = NoExc /\ wres.ret = PyNone)
        /\ (wcall.f.kind = "value" /\ wcall.f.text = <<OK>>) =>
              (wres.exc = NoExc /\ wres.ret = PyBool(TRUE))
        /\ (wcall.f.kind = "value" /\ wcall.f.text = <<LATE>>) =>
              (wres.exc = NoExc /\ wres.ret = PyBool(FALSE))
        /\ (wcall.f.kind = "value" /\ strip(wcall.f.text) \notin {<<OK>>, <<LATE>>}) =>
              wres.exc = "WebAPIError"

\* C10: get_submissions returns a dictionary from tutorials of the package
\* to elements of RESPONSES, or raises WebAPIError; it raises WebAPIError
\* whenever the response is not valid JSON or an element has a status
\* outside RESPONSES.
C10_SubmissionsDictOrWebAPIError ==
    wcall.op = "get_submissions" =>
        /\ \/ wres.exc = "WebAPIError"
           \/ /\ wres.exc = NoExc
              /\ wres.ret.t = "dict"
              /\ DOMAIN wres.ret.d \subseteq PackageTutorials
              /\ \A k \in DOMAIN wres.ret.d : wres.ret.d[k] \in RESPONSES
        /\ (ServerReached /\ wcall.f.kind = "value") =>
              LET j == json_loads(wcall.f.text) IN
              (\/ j.kind = "invalid"
               \/ /\ j.kind = "list"
                  /\ \E i \in 1..Len(j.value) :
                        Len(j.value[i]) >= 2 /\ j.value[i][2] \notin RESPONSES)
                => wres.exc = "WebAPIError"

\* whether the last WebAPI call made the given call
Made(what) == \E i \in 1..Len(wres.trace) : wres.trace[i] = what

\* C11: login of a user who is logged in returns True without calling the
\* session manager or the listener; logout with no user logged in calls
\* neither; when the session manager's login or logout raises, the call
\* raises WebAPIError and the listener is not called.
C11_NoOpAndFailureOfLoginLogout ==
    /\ (wcall.op = "login" /\ wcall.was_logged_in) =>
          /\ wres.exc = NoExc /\ wres.ret = PyBool(TRUE)
          /\ ~Made("sm.login") /\ ~Made("listener")
          /\ Len(notified) = wcall.notes_before
    /\ (wcall.op = "logout" /\ ~wcall.was_logged_in) =>
          /\ wres.exc = NoExc
          /\ ~Made("sm.logout") /\ ~Made("listener")
          /\ Len(notified) = wcall.notes_before
    /\ (wcall.op \in {"login", "logout"} /\ wcall.sm = "raise"
          /\ (Made("sm.login") \/ Made("sm.logout"))) =>
          /\ wres.exc = "WebAPIError"
          /\ ~Made("listener")
          /\ Len(notified) = wcall.notes_before

\* login was called for a logged-in user, with a session manager that would
\* have raised had it been asked
C11_Witness ==
    /\ wcall.op = "login" /\ wcall.was_logged_in /\ wcall.sm = "raise"
    /\ wres.ret = PyBool(TRUE) /\ logged_in

\* C12: with require_login, _request calls f only when the user is logged
\* in; when login returns False it raises WebAPIError 'Authentication Error'
\* and does not call f.  Without require_login it does not call login.
\* When f is called, AuthError and RequestError become WebAPIError,
\* NullResponse becomes the return value None, and any other result of f is
\* returned as it is.
C12_RequestLoginAndConversion ==
    wcall.op = "request" =>
        /\ (wcall.require_login /\ Made("f")) =>
              /\ Made("login")
              /\ wcall.was_logged_in \/ wcall.sm = "ok"
        /\ (wcall.require_login /\ ~wcall.was_logged_in /\ wcall.sm = "fail") =>
              /\ wres.exc = "WebAPIError"
              /\ wres.message = "Authentication Error"
              /\ ~Made("f")
        /\ ~wcall.require_login =>
              /\ ~Made("login") /\ ~Made("sm.login")
              /\ logged_in = wcall.was_logged_in
              /\ Made("f")
        /\ Made("f") =>
              /\ wcall.f.kind \in {"AuthError", "RequestError"} =>
                    wres.exc = "WebAPIError"
              /\ wcall.f.kind = "NullResponse" =>
                    (wres.exc = NoExc /\ wres.ret = PyNone)
              /\ wcall.f.kind = "value" =>
                    (wres.exc = NoExc /\ wres.ret = PyStr(wcall.f.text))

\* a request that requires login, by a user who is not logged in and whose
\* login is refused, although the server would have answered
C12_Witness ==
    /\ wcall.op = "request" /\ wcall.require_login
    /\ ~wcall.was_logged_in /\ wcall.sm = "fail" /\ wcall.f.kind = "value"
    /\ wres.exc = "WebAPIError" /\ wres.message = "Authentication Error"

C14_Names == {Probes[frame.f].name, TEST_RESULT_IDENTIFIER}

\* C14: when the probe's source defines the probe under its name, the test
\* statement calls the probe's own definition, also when the learner bound
\* that name, and the result read back is what that call returned, also when
\* the learner bound '__test_result'; the shared dictionary keeps the
\* learner's bindings of both names throughout the call.
C14_ProbeShadowsLearner ==
    (pc # "idle" /\ Probes[frame.f].src = "ok") =>
        /\ pc \in {"injected", "redirected"} =>
              dicts[frame.lcls][Probes[frame.f].name] = ProbeFn(frame.f)
        /\ pc = "executed" =>
              frame.invoked = ProbeFn(frame.f)
        /\ (pc \in {"executed", "unwound"} /\ frame.exc = NoExc) =>
              frame.result = frame.produced
        /\ \A n \in C14_Names :
              n \in DOMAIN loaded.env =>
                  /\ n \in DOMAIN dicts.shared
                  /\ dicts.shared[n] = loaded.env[n]

\* the learner bound both the probe's name and '__test_result'; the probe
\* ran and its own value came back
C14_Witness ==
    /\ pc = "executed" /\ frame.exc = NoExc
    /\ Probes[frame.f].name = "probe_read"
    /\ C14_Names \subseteq DOMAIN loaded.env
    /\ loaded.env["probe_read"] = LearnerFn(2)
    /\ frame.invoked = ProbeFn(frame.f)
    /\ frame.result # loaded.env[TEST_RESULT_IDENTIFIER]
    /\ dicts.shared[TEST_RESULT_IDENTIFIER] = IntV(7)

====
